---- MODULE Spec2Model ----
(***************************************************************************)
(* A model of the SuperAudit hardhat plugin: the analyze task pipeline     *)
(* (packages/plugin/src/tasks/analyze.ts), the AI-enhanced rule wrapper    *)
(* (rules/ai-enhanced-rule.ts), the LLM client (ai/llm-client.ts) and the  *)
(* Reporter (reporter.ts).                                                 *)
(*                                                                         *)
(* Findings are objects on a heap (a sequence of records, the index being  *)
(* the object's identity); the context's sink, the engine's result list    *)
(* and the reporter's list hold references, as the JavaScript arrays do.   *)
(***************************************************************************)
EXTENDS Integers, Sequences, FiniteSets, TLC

VARIABLES
  pc,              \* position of analyzeTask
  args,            \* the parsed command line / config arguments
  env,             \* process.env as read by getAIConfig
  fsys,            \* what the file system holds: parse outcome, faulty rule
  rules,           \* the active rule list
  analysisMode,
  llmClient,       \* NoClient or the LLMClient record
  aiEnhancedRules,
  parseResults,    \* the parsed files, in order
  heap,            \* the Finding objects
  sink,            \* context.issues of the file under analysis
  collected,       \* the engine's findings of the files done so far
  fileIdx, ruleIdx,\* position of the engine
  failures,        \* the engine's rule failure log
  allIssues,       \* analyzeTask's allIssues
  beforeAI,        \* allIssues as the engine returned it (history)
  contextMap,      \* keys (object identities) of analyzeTask's contextMap
  aiIdx,           \* position of the enhancement loop
  llmCalls,        \* the requests sent to the LLM API (history)
  reporter,        \* Reporter.issues
  printed,         \* the findings listed by the last printReport
  out,             \* the report written, or NoReport
  diag,            \* the fatal diagnostics printed
  exitCode,        \* NoExit, "0" (normal return) or "1" (process.exit(1))
  playbooks,       \* PlaybookRegistry.playbooks: the entries in Map order
  tagIndex,        \* PlaybookRegistry.tagIndex: tag -> ids in Set order
  authorIndex,     \* PlaybookRegistry.authorIndex: author -> ids in Set order
  argv,            \* process.argv
  configDefaults,  \* hre.config.superaudit
  sync             \* the running syncFromLighthouse: uploads, position, result

vars == << pc, args, env, fsys, rules, analysisMode, llmClient, aiEnhancedRules,
           parseResults, heap, sink, collected, fileIdx, ruleIdx, failures,
           allIssues, beforeAI, contextMap, aiIdx, llmCalls, reporter, printed,
           out, diag, exitCode, playbooks, tagIndex, authorIndex, argv,
           configDefaults, sync >>

\* The state of the playbook registry, and the inputs of the argument parsing.
registryVars == << playbooks, tagIndex, authorIndex >>
argVars == << argv, configDefaults >>

None == "none"
NoClient == [provider |-> "none", openai |-> FALSE, anthropic |-> FALSE]
NoReport == [format |-> "none"]
NoContext == "none"
NoEnhancement == [present |-> FALSE]
NoExit == "none"
NoSync == [uploads |-> << >>, idx |-> 0, registered |-> << >>]
NoConfig == [playbook |-> None, mode |-> None, rules |-> << >>, format |-> None,
             output |-> None, aiEnabled |-> FALSE]

\* The tags and authors that occur, and the indexes with no key. A key of an
\* index Map is present exactly when its id list is not empty.
Tags == { "defi", "token", "encrypted" }
Authors == { "alice", "bob", "unknown", "Unknown" }
EmptyTagIndex == [t \in Tags |-> << >>]
EmptyAuthorIndex == [a \in Authors |-> << >>]

(***************************************************************************)
(* The built-in rules and what they detect                                 *)
(***************************************************************************)
BASIC_RULES == << "no-tx-origin", "explicit-visibility" >>
ADVANCED_RULES == << "reentrancy-paths" >>
DEFAULT_RULES == BASIC_RULES \o ADVANCED_RULES

PlaybookRuleIds == { "pb-unprotected-mint", "pb-missing-severity" }
RuleIds == { "no-tx-origin", "explicit-visibility", "reentrancy-paths" } \cup PlaybookRuleIds

Files == { "A.sol", "B.sol" }

Severity(id) ==
  CASE id = "no-tx-origin" -> "error"
    [] id = "explicit-visibility" -> "warning"
    [] id = "reentrancy-paths" -> "error"
    [] OTHER -> "info"

Description(id) == "desc:" \o id

\* A Rule object: id, description, severity; a wrapper also holds its base rule.
Rule(id) ==
  [id |-> id, description |-> Description(id), severity |-> Severity(id),
   wrapped |-> FALSE, enableAI |-> FALSE, baseId |-> id,
   baseDescription |-> Description(id)]

AIEnhancedRule(baseRule, enableAI) ==
  [id |-> baseRule.id \o "-ai",
   description |-> baseRule.description \o " (AI-Enhanced)",
   severity |-> baseRule.severity,
   wrapped |-> TRUE, enableAI |-> enableAI, baseId |-> baseRule.id,
   baseDescription |-> baseRule.description]

RuleList(ids) == [i \in DOMAIN ids |-> Rule(ids[i])]

\* The locations at which a rule's pattern occurs in a file.
Detects(id, file) ==
  CASE id = "no-tx-origin" /\ file = "A.sol" -> << <<3, 1>> >>
    [] id = "explicit-visibility" /\ file = "A.sol" -> << <<3, 1>>, <<1, 4>> >>
    [] id = "reentrancy-paths" /\ file = "A.sol" -> << <<5, 2>> >>
    [] id = "pb-unprotected-mint" /\ file = "A.sol" -> << <<1, 4>> >>
    [] id = "explicit-visibility" /\ file = "B.sol" -> << <<2, 2>> >>
    [] id = "reentrancy-paths" /\ file = "B.sol" -> << <<2, 2>> >>
    [] OTHER -> << >>

Min(a, b) == IF a < b THEN a ELSE b

(***************************************************************************)
(* Rules applied to a context                                              *)
(***************************************************************************)
\* The Finding a rule creates at a location.
NewFinding(rule, file, loc) ==
  [ruleId |-> rule.baseId, file |-> file, line |-> loc[1], column |-> loc[2],
   severity |-> rule.severity, message |-> << "msg:" \o rule.baseId >>,
   aiEnhancement |-> NoEnhancement,
   needsAIEnhancement |-> FALSE, aiContext |-> NoContext]

\* A built-in or playbook rule applied to the context of a file: it pushes
\* its findings to the sink. A faulty rule throws after `fault.after`
\* findings. Result: the heap, the sink, and whether apply threw.
BaseRuleApply(rule, file, h, s, fault) ==
  LET locs == Detects(rule.baseId, file)
      faulty == fault.rule = rule.baseId
      n == IF faulty THEN Min(fault.after, Len(locs)) ELSE Len(locs)
      created == [i \in 1..n |-> NewFinding(rule, file, locs[i])]
  IN  [heap |-> h \o created,
       sink |-> s \o [i \in 1..n |-> Len(h) + i],
       threw |-> faulty]

\* The findings of the sink that apply marks: those of the base rule.
OriginalIssues(rule, h, s) == SelectSeq(s, LAMBDA o : h[o].ruleId = rule.baseId)

MarkForEnhancement(rule, file, h, s) ==
  LET originalIssues == OriginalIssues(rule, h, s)
      marked == { originalIssues[i] : i \in DOMAIN originalIssues }
  IN  [o \in 1..Len(h) |->
         IF o \in marked
         THEN [h[o] EXCEPT !.needsAIEnhancement = TRUE, !.aiContext = file]
         ELSE h[o]]

\* A wrapper that empties the sink when its base rule throws.
AIEnhancedRuleApplyClearsOnThrow(rule, file, h, s, fault) ==
  LET b == BaseRuleApply(rule, file, h, s, fault)
  IN  IF b.threw THEN [b EXCEPT !.sink = << >>]
      ELSE IF ~rule.enableAI THEN b
      ELSE [b EXCEPT !.heap = MarkForEnhancement(rule, file, b.heap, b.sink)]

\* AIEnhancedRule.apply: the base rule runs first; its exception propagates.
AIEnhancedRuleApply(rule, file, h, s, fault) ==
  LET b == BaseRuleApply(rule, file, h, s, fault)
  IN  IF b.threw \/ ~rule.enableAI
      THEN b
      ELSE [b EXCEPT !.heap = MarkForEnhancement(rule, file, b.heap, b.sink)]

RuleApply(rule, file, h, s, fault) ==
  IF rule.wrapped
  THEN AIEnhancedRuleApply(rule, file, h, s, fault)
  ELSE BaseRuleApply(rule, file, h, s, fault)

(***************************************************************************)
(* The LLM client                                                          *)
(***************************************************************************)
\* A configuration that takes whichever key is set.
GetAIConfigAnyKey(e) ==
  [provider |-> e.provider, apiKey |-> e.openaiKey \/ e.anthropicKey]

\* getAIConfig: the provider and the key of that provider.
GetAIConfig(e) ==
  [provider |-> e.provider,
   apiKey |-> IF e.provider = "openai" THEN e.openaiKey
              ELSE IF e.provider = "anthropic" THEN e.anthropicKey
              ELSE FALSE]

\* new LLMClient(config): the provider's client exists when a key is given.
LLMClient(config) ==
  [provider |-> config.provider,
   openai |-> config.provider = "openai" /\ config.apiKey,
   anthropic |-> config.provider = "anthropic" /\ config.apiKey]

FallbackResponse ==
  [explanation |-> "AI analysis unavailable",
   hasFix |-> FALSE, hasRisk |-> FALSE, confidence |-> "0"]

\* validateResponse of what the model answers about a request.
ModelResponse(request) ==
  [explanation |-> "analysis of " \o request.ruleDescription,
   hasFix |-> TRUE, hasRisk |-> TRUE, confidence |-> "0.9"]

\* analyzeCode: `api` is what the provider's API does with the request
\* ("ok", or "error": the call fails or the answer does not parse).
\* Result: threw, or the response; sent tells whether the API was called.
AnalyzeCode(client, request, api) ==
  LET initialised == \/ client.provider = "openai" /\ client.openai
                     \/ client.provider = "anthropic" /\ client.anthropic
  IN  IF ~initialised
      THEN [threw |-> TRUE, sent |-> FALSE, response |-> FallbackResponse]
      ELSE [threw |-> FALSE, sent |-> TRUE,
            response |-> IF api = "ok" THEN ModelResponse(request)
                         ELSE FallbackResponse]

(***************************************************************************)
(* Enrichment                                                              *)
(***************************************************************************)
FormatEnhancedMessage(originalMessage, aiResponse) ==
  originalMessage
    \o << "AI ANALYSIS: " \o aiResponse.explanation >>
    \o (IF aiResponse.hasFix THEN << "SUGGESTED FIX" >> ELSE << >>)
    \o (IF aiResponse.hasRisk THEN << "RISK SCORE" >> ELSE << >>)
    \o (IF aiResponse.confidence # "0" THEN << "CONFIDENCE" >> ELSE << >>)

\* enhanceIssueWithAI on the Finding object `o`: the object returned (the
\* same one when the analysis threw, else a new one), the heap, and the
\* request if it reached the API. The request's ruleId, line, column and by
\* stand for the code snippet and record which wrapper asked.
EnhanceIssueWithAI(rule, client, h, o, api) ==
  LET issue == h[o]
      request == [ruleDescription |-> rule.description, fileName |-> issue.file,
                  severity |-> issue.severity, ruleId |-> issue.ruleId,
                  line |-> issue.line, column |-> issue.column, by |-> rule.id]
      r == AnalyzeCode(client, request, api)
      enhancedIssue ==
        [issue EXCEPT
           !.message = FormatEnhancedMessage(issue.message, r.response),
           !.aiEnhancement = [present |-> TRUE,
                              explanation |-> r.response.explanation,
                              hasFix |-> r.response.hasFix,
                              hasRisk |-> r.response.hasRisk,
                              confidence |-> r.response.confidence]]
  IN  IF r.threw
      THEN [heap |-> h, issue |-> o, calls |-> << >>]
      ELSE [heap |-> Append(h, enhancedIssue), issue |-> Len(h) + 1,
            calls |-> << [request |-> request, api |-> api, issue |-> o] >>]

\* The context enhanceIssues finds for an issue: contexts.get(issue) or
\* the issue's own _aiContext.
ContextOf(h, o, contexts) ==
  IF o \in contexts THEN h[o].file ELSE h[o].aiContext

\* A loop body that pushes only the issues it enhances.
EnhanceOneDropsSkipped(rule, client, acc, o, contexts, api) ==
  IF acc.heap[o].needsAIEnhancement /\ ContextOf(acc.heap, o, contexts) # NoContext
  THEN LET r == EnhanceIssueWithAI(rule, client, acc.heap, o, api)
       IN  [heap |-> r.heap, enhanced |-> Append(acc.enhanced, r.issue),
            calls |-> acc.calls \o r.calls]
  ELSE acc

\* One iteration of the loop of enhanceIssues, on issues[i].
EnhanceOne(rule, client, acc, o, contexts, api) ==
  IF acc.heap[o].needsAIEnhancement /\ ContextOf(acc.heap, o, contexts) # NoContext
  THEN LET r == EnhanceIssueWithAI(rule, client, acc.heap, o, api)
       IN  [heap |-> r.heap, enhanced |-> Append(acc.enhanced, r.issue),
            calls |-> acc.calls \o r.calls]
  ELSE [acc EXCEPT !.enhanced = Append(acc.enhanced, o)]

RECURSIVE EnhanceLoop(_, _, _, _, _, _, _)
EnhanceLoop(rule, client, acc, issues, contexts, apis, i) ==
  IF i > Len(issues)
  THEN acc
  ELSE EnhanceLoop(rule, client,
                   EnhanceOne(rule, client, acc, issues[i], contexts, apis[i]),
                   issues, contexts, apis, i + 1)

\* AIEnhancedRule.enhanceIssues: apis[i] is what the API does with the
\* request for issues[i].
EnhanceIssues(rule, client, h, issues, contexts, apis) ==
  EnhanceLoop(rule, client, [heap |-> h, enhanced |-> << >>, calls |-> << >>],
              issues, contexts, apis, 1)

(***************************************************************************)
(* The Reporter                                                            *)
(***************************************************************************)
Deref(h, s) == [i \in DOMAIN s |-> h[s[i]]]

ReporterAddIssue(r, issue) == Append(r, issue)
ReporterAddIssues(r, issues) == r \o issues
ReporterClear(r) == << >>

CountSeverity(h, r, sev) == Cardinality({ i \in DOMAIN r : h[r[i]].severity = sev })

GetSummary(h, r) ==
  [totalIssues |-> Len(r),
   errorCount |-> CountSeverity(h, r, "error"),
   warningCount |-> CountSeverity(h, r, "warning"),
   infoCount |-> CountSeverity(h, r, "info")]

\* A test that also counts warnings.
HasErrorsOrWarnings(h, r) ==
  \E i \in DOMAIN r : h[r[i]].severity \in { "error", "warning" }

HasErrors(h, r) == \E i \in DOMAIN r : h[r[i]].severity = "error"

\* a.file.localeCompare(b.file) on the file names of the model.
FileRank(f) == IF f = "A.sol" THEN 1 ELSE 2
LocaleCompare(f, g) == FileRank(f) - FileRank(g)

\* A comparator that stops at the line.
CompareIssuesNoColumn(a, b) ==
  IF a.file # b.file THEN LocaleCompare(a.file, b.file)
  ELSE a.line - b.line

\* The comparator of printReport.
CompareIssues(a, b) ==
  IF a.file # b.file THEN LocaleCompare(a.file, b.file)
  ELSE IF a.line # b.line THEN a.line - b.line
  ELSE a.column - b.column

\* Array.prototype.sort with a comparator: a stable sort. x is inserted
\* behind every element that does not compare greater than it.
RECURSIVE InsertSorted(_, _, _)
InsertSorted(h, s, x) ==
  IF s = << >> THEN << x >>
  ELSE IF CompareIssues(h[s[Len(s)]], h[x]) <= 0
       THEN Append(s, x)
       ELSE Append(InsertSorted(h, SubSeq(s, 1, Len(s) - 1), x), s[Len(s)])

RECURSIVE SortFrom(_, _, _, _)
SortFrom(h, s, acc, i) ==
  IF i > Len(s) THEN acc ELSE SortFrom(h, s, InsertSorted(h, acc, s[i]), i + 1)

SortIssues(h, s) == SortFrom(h, s, << >>, 1)

(***************************************************************************)
(* Rule selection                                                          *)
(***************************************************************************)
\* The checks of the playbooks of the model: one well-formed entry and one
\* entry without severity, which the compiler skips.
PlaybookEntries ==
  << [id |-> "pb-unprotected-mint", valid |-> TRUE],
     [id |-> "pb-missing-severity", valid |-> FALSE] >>

CompilePlaybook(entries) ==
  LET valid == SelectSeq(entries, LAMBDA e : e.valid)
  IN  [i \in DOMAIN valid |-> valid[i].id]

ExistingPlaybookFiles == { "erc20.yaml" }
RegisteredPlaybookIds == { "erc20-token-security" }
DownloadableCids == { "cid-good" }

\* loadPlaybookRules(file): the rules compiled from the file's playbook.
LoadPlaybookRules(file) == CompilePlaybook(PlaybookEntries)

\* registerFromLighthouse(cid) without an id: throws when Lighthouse is not
\* initialised; a failed download is registered as an unvalidated entry.
RegisterFromLighthouse(cid, lighthouse) ==
  [threw |-> ~lighthouse,
   id |-> "lighthouse-" \o cid,
   validated |-> cid \in DownloadableCids]

\* loadRulesFromRegistry(id): the rules of a registered, validated playbook;
\* throws for any other id.
LoadRulesFromRegistry(id, validatedIds) ==
  [threw |-> id \notin validatedIds,
   rules |-> IF id \in validatedIds THEN CompilePlaybook(PlaybookEntries) ELSE << >>]

Selected(ids, mode) == [threw |-> FALSE, rules |-> RuleList(ids), analysisMode |-> mode]
SelectionThrows == [threw |-> TRUE, rules |-> << >>, analysisMode |-> None]

\* The rules a playbook run activates.
\* A playbook run that keeps every built-in rule.
WithPlaybookDefault(playbookRules) == DEFAULT_RULES \o playbookRules

WithPlaybook(playbookRules) == BASIC_RULES \o playbookRules

\* A playbook branch that treats a missing file as an empty playbook.
FromPlaybookFileLenient(file) ==
  IF file \notin ExistingPlaybookFiles
  THEN Selected(WithPlaybook(<< >>), "playbook")
  ELSE Selected(WithPlaybook(LoadPlaybookRules(file)), "playbook")

\* The branch of a playbook file: it must exist.
FromPlaybookFile(file) ==
  IF file \notin ExistingPlaybookFiles
  THEN SelectionThrows
  ELSE Selected(WithPlaybook(LoadPlaybookRules(file)), "playbook")

\* A selection that looks at --rules before the playbook file.
DetermineAnalysisRulesRulesFirst(a, e) ==
  IF a.playbookCid # None
  THEN LET registered == RegisterFromLighthouse(a.playbookCid, e.lighthouse)
           loaded == LoadRulesFromRegistry(
                       registered.id,
                       RegisteredPlaybookIds \cup
                         (IF registered.validated THEN { registered.id } ELSE { }))
       IN  IF registered.threw \/ loaded.threw
           THEN SelectionThrows
           ELSE Selected(WithPlaybook(loaded.rules), "community-playbook")
  ELSE IF a.playbookId # None
  THEN LET loaded == LoadRulesFromRegistry(a.playbookId, RegisteredPlaybookIds)
       IN  IF loaded.threw
           THEN SelectionThrows
           ELSE Selected(WithPlaybook(loaded.rules), "registry")
  ELSE IF a.rules # << >>
  THEN LET allRules == BASIC_RULES \o ADVANCED_RULES
           filteredRules ==
             SelectSeq(allRules, LAMBDA id : \E i \in DOMAIN a.rules : a.rules[i] = id)
       IN  IF Len(filteredRules) = 0
           THEN SelectionThrows
           ELSE Selected(filteredRules, "custom")
  ELSE IF a.playbook # None
  THEN FromPlaybookFile(a.playbook)
  ELSE IF a.mode = "basic" THEN Selected(BASIC_RULES, "basic")
  ELSE IF a.mode = "advanced" THEN Selected(BASIC_RULES \o ADVANCED_RULES, "advanced")
  ELSE Selected(DEFAULT_RULES, "full")

DetermineAnalysisRules(a, e) ==
  IF a.playbookCid # None
  THEN LET registered == RegisterFromLighthouse(a.playbookCid, e.lighthouse)
           loaded == LoadRulesFromRegistry(
                       registered.id,
                       RegisteredPlaybookIds \cup
                         (IF registered.validated THEN { registered.id } ELSE { }))
       IN  IF registered.threw \/ loaded.threw
           THEN SelectionThrows
           ELSE Selected(WithPlaybook(loaded.rules), "community-playbook")
  ELSE IF a.playbookId # None
  THEN LET loaded == LoadRulesFromRegistry(a.playbookId, RegisteredPlaybookIds)
       IN  IF loaded.threw
           THEN SelectionThrows
           ELSE Selected(WithPlaybook(loaded.rules), "registry")
  ELSE IF a.playbook # None
  THEN FromPlaybookFile(a.playbook)
  ELSE IF a.rules # << >>
  THEN LET allRules == BASIC_RULES \o ADVANCED_RULES
           filteredRules ==
             SelectSeq(allRules, LAMBDA id : \E i \in DOMAIN a.rules : a.rules[i] = id)
       IN  IF Len(filteredRules) = 0
           THEN SelectionThrows
           ELSE Selected(filteredRules, "custom")
  ELSE IF a.mode = "basic" THEN Selected(BASIC_RULES, "basic")
  ELSE IF a.mode = "advanced" THEN Selected(BASIC_RULES \o ADVANCED_RULES, "advanced")
  ELSE Selected(DEFAULT_RULES, "full")

\* Whether the arguments select a playbook.
PlaybookSelected(a) == a.playbookCid # None \/ a.playbookId # None \/ a.playbook # None

(***************************************************************************)
(* The inputs of a run                                                     *)
(***************************************************************************)
NoArgs ==
  [playbook |-> None, playbookCid |-> None, playbookId |-> None, mode |-> None,
   rules |-> << >>, format |-> None, output |-> None, aiEnabled |-> FALSE]

Selections ==
  { NoArgs,
    [NoArgs EXCEPT !.mode = "basic"],
    [NoArgs EXCEPT !.mode = "advanced"],
    [NoArgs EXCEPT !.rules = << "no-tx-origin", "reentrancy-paths" >>],
    [NoArgs EXCEPT !.rules = << "explicit-visibility" >>],
    [NoArgs EXCEPT !.rules = << "bogus" >>],
    [NoArgs EXCEPT !.playbook = "erc20.yaml"],
    [NoArgs EXCEPT !.playbook = "erc20.yaml", !.rules = << "reentrancy-paths" >>],
    [NoArgs EXCEPT !.playbook = "missing.yaml"],
    [NoArgs EXCEPT !.playbookId = "erc20-token-security"],
    [NoArgs EXCEPT !.playbookId = "unknown-id", !.mode = "basic"],
    [NoArgs EXCEPT !.playbookCid = "cid-good"],
    [NoArgs EXCEPT !.playbookCid = "cid-bad"] }

ArgChoices ==
  { [a EXCEPT !.format = f, !.aiEnabled = ai] :
      a \in Selections, f \in { None, "json", "sarif" }, ai \in BOOLEAN }

EnvChoices ==
  { [provider |-> "openai", openaiKey |-> TRUE, anthropicKey |-> FALSE, lighthouse |-> TRUE,
     aiEnabled |-> FALSE],
    [provider |-> "openai", openaiKey |-> FALSE, anthropicKey |-> TRUE, lighthouse |-> FALSE,
     aiEnabled |-> FALSE],
    [provider |-> "anthropic", openaiKey |-> FALSE, anthropicKey |-> TRUE, lighthouse |-> TRUE,
     aiEnabled |-> FALSE],
    [provider |-> "local", openaiKey |-> TRUE, anthropicKey |-> TRUE, lighthouse |-> TRUE,
     aiEnabled |-> FALSE] }

NoFault == [rule |-> None, after |-> 0]
FaultChoices ==
  { NoFault, [rule |-> "no-tx-origin", after |-> 0],
    [rule |-> "explicit-visibility", after |-> 1] }

ParseChoices ==
  { [kind |-> "ok", files |-> << >>],
    [kind |-> "ok", files |-> << "A.sol" >>],
    [kind |-> "ok", files |-> << "B.sol", "A.sol" >>],
    [kind |-> "ParseError", files |-> << >>],
    [kind |-> "Error", files |-> << >>] }

FsysChoices == { [parse |-> p, fault |-> f] : p \in ParseChoices, f \in FaultChoices }

(***************************************************************************)
(* analyzeTask                                                             *)
(***************************************************************************)
Init ==
  /\ pc = "start"
  /\ args \in ArgChoices
  /\ env \in EnvChoices
  /\ fsys \in FsysChoices
  /\ rules = << >>
  /\ analysisMode = None
  /\ llmClient = NoClient
  /\ aiEnhancedRules = << >>
  /\ parseResults = << >>
  /\ heap = << >>
  /\ sink = << >>
  /\ collected = << >>
  /\ fileIdx = 1
  /\ ruleIdx = 1
  /\ failures = << >>
  /\ allIssues = << >>
  /\ beforeAI = << >>
  /\ contextMap = { }
  /\ aiIdx = 1
  /\ llmCalls = << >>
  /\ reporter = << >>
  /\ printed = << >>
  /\ out = NoReport
  /\ diag = << >>
  /\ exitCode = NoExit
  /\ playbooks = << >>
  /\ tagIndex = EmptyTagIndex
  /\ authorIndex = EmptyAuthorIndex
  /\ argv = << >>
  /\ configDefaults = NoConfig
  /\ sync = NoSync

\* The top-level catch of analyzeTask: the diagnostic, then process.exit(1).
Fail ==
  /\ diag' = Append(diag, "Analysis failed")
  /\ exitCode' = "1"
  /\ pc' = "done"

\* let { rules, analysisMode } = await determineAnalysisRules(args)
SelectRules ==
  /\ pc = "start"
  /\ LET r == DetermineAnalysisRules(args, env)
     IN  IF r.threw
         THEN /\ Fail
              /\ UNCHANGED << rules, analysisMode >>
         ELSE /\ rules' = r.rules
              /\ analysisMode' = r.analysisMode
              /\ pc' = "selected"
              /\ UNCHANGED << diag, exitCode >>
  /\ UNCHANGED << args, env, fsys, llmClient, aiEnhancedRules, parseResults, heap,
                  sink, collected, fileIdx, ruleIdx, failures, allIssues, beforeAI,
                  contextMap, aiIdx, llmCalls, reporter, printed, out >>
  /\ UNCHANGED << registryVars, argVars, sync >>

\* The rules wrapped for AI enhancement.
WrapRules(rs) == [i \in DOMAIN rs |-> AIEnhancedRule(rs[i], TRUE)]

\* if (args.aiEnabled) { ... wrap the rules when an API key is found }
InitAI ==
  /\ pc = "selected"
  /\ LET aiConfig == GetAIConfig(env)
     IN  IF args.aiEnabled /\ aiConfig.apiKey
         THEN /\ llmClient' = LLMClient(aiConfig)
              /\ aiEnhancedRules' = WrapRules(rules)
              /\ rules' = WrapRules(rules)
         ELSE UNCHANGED << llmClient, aiEnhancedRules, rules >>
  /\ pc' = "parse"
  /\ UNCHANGED << args, env, fsys, analysisMode, parseResults, heap, sink, collected,
                  fileIdx, ruleIdx, failures, allIssues, beforeAI, contextMap, aiIdx,
                  llmCalls, reporter, printed, out, diag, exitCode >>
  /\ UNCHANGED << registryVars, argVars, sync >>

\* A parse step that goes on after a ParseError.
ParseStepContinues(parse) ==
  IF parse.kind = "Error"
  THEN [pc |-> "done", diag |-> << "Failed to parse source files" >>,
        exitCode |-> "1", files |-> << >>]
  ELSE IF parse.kind = "ParseError"
  THEN [pc |-> "analyze", diag |-> << "Parse error" >>, exitCode |-> NoExit,
        files |-> << "A.sol" >>]
  ELSE IF Len(parse.files) = 0
  THEN [pc |-> "done", diag |-> << >>, exitCode |-> "0", files |-> << >>]
  ELSE [pc |-> "analyze", diag |-> << >>, exitCode |-> NoExit, files |-> parse.files]

\* What the parse step does with the outcome of parseAllSourceFiles.
ParseStep(parse) ==
  IF parse.kind = "ParseError"
  THEN [pc |-> "done", diag |-> << "Parse error" >>, exitCode |-> "1", files |-> << >>]
  ELSE IF parse.kind = "Error"
  THEN [pc |-> "done", diag |-> << "Failed to parse source files" >>,
        exitCode |-> "1", files |-> << >>]
  ELSE IF Len(parse.files) = 0
  THEN [pc |-> "done", diag |-> << >>, exitCode |-> "0", files |-> << >>]
  ELSE [pc |-> "analyze", diag |-> << >>, exitCode |-> NoExit, files |-> parse.files]

\* parseAllSourceFiles, its catch, and the return when nothing was found.
ParseSources ==
  /\ pc = "parse"
  /\ LET r == ParseStep(fsys.parse)
     IN  /\ pc' = r.pc
         /\ diag' = diag \o r.diag
         /\ exitCode' = r.exitCode
         /\ parseResults' = r.files
  /\ UNCHANGED << args, env, fsys, rules, analysisMode, llmClient, aiEnhancedRules,
                  heap, sink, collected, fileIdx, ruleIdx, failures, allIssues,
                  beforeAI, contextMap, aiIdx, llmCalls, reporter, printed, out >>
  /\ UNCHANGED << registryVars, argVars, sync >>

(***************************************************************************)
(* The rule engine: every rule on every file, in registration order        *)
(***************************************************************************)
\* One rule applied to the file under analysis; an exception of the rule is
\* caught and logged, the sink keeps what was pushed.
EngineApply(rule, file, h, s, fault) ==
  LET r == RuleApply(rule, file, h, s, fault)
  IN  [heap |-> r.heap, sink |-> r.sink,
       failure |-> IF r.threw THEN << [ruleId |-> rule.id, file |-> file] >> ELSE << >>]

EngineApplyRule ==
  /\ pc = "analyze"
  /\ fileIdx <= Len(parseResults)
  /\ ruleIdx <= Len(rules)
  /\ LET r == EngineApply(rules[ruleIdx], parseResults[fileIdx], heap, sink, fsys.fault)
     IN  /\ heap' = r.heap
         /\ sink' = r.sink
         /\ failures' = failures \o r.failure
  /\ ruleIdx' = ruleIdx + 1
  /\ UNCHANGED << pc, args, env, fsys, rules, analysisMode, llmClient, aiEnhancedRules,
                  parseResults, collected, fileIdx, allIssues, beforeAI, contextMap,
                  aiIdx, llmCalls, reporter, printed, out, diag, exitCode >>
  /\ UNCHANGED << registryVars, argVars, sync >>

\* The file's findings go to the reporter and to the engine's result.
EngineFinishFile ==
  /\ pc = "analyze"
  /\ fileIdx <= Len(parseResults)
  /\ ruleIdx > Len(rules)
  /\ collected' = collected \o sink
  /\ reporter' = ReporterAddIssues(reporter, sink)
  /\ sink' = << >>
  /\ fileIdx' = fileIdx + 1
  /\ ruleIdx' = 1
  /\ UNCHANGED << pc, args, env, fsys, rules, analysisMode, llmClient, aiEnhancedRules,
                  parseResults, heap, failures, allIssues, beforeAI, contextMap,
                  aiIdx, llmCalls, printed, out, diag, exitCode >>
  /\ UNCHANGED << registryVars, argVars, sync >>

\* analyzeMultiple returns the findings sorted by file, line and column.
EngineResult(h, found) == SortIssues(h, found)

EngineReturn ==
  /\ pc = "analyze"
  /\ fileIdx > Len(parseResults)
  /\ allIssues' = EngineResult(heap, collected)
  /\ beforeAI' = EngineResult(heap, collected)
  /\ pc' = "enhance"
  /\ UNCHANGED << args, env, fsys, rules, analysisMode, llmClient, aiEnhancedRules,
                  parseResults, heap, sink, collected, fileIdx, ruleIdx, failures,
                  contextMap, aiIdx, llmCalls, reporter, printed, out, diag, exitCode >>
  /\ UNCHANGED << registryVars, argVars, sync >>

(***************************************************************************)
(* AI enhancement of the findings                                          *)
(***************************************************************************)
AIRequested == args.aiEnabled /\ llmClient # NoClient /\ Len(aiEnhancedRules) > 0

\* The keys of the context map: the findings of the parsed files.
BuildContextMap(h, issues, files) ==
  { issues[i] : i \in { j \in DOMAIN issues :
                          \E k \in DOMAIN files : h[issues[j]].file = files[k] } }

AIStart ==
  /\ pc = "enhance"
  /\ AIRequested
  /\ contextMap' = BuildContextMap(heap, allIssues, parseResults)
  /\ aiIdx' = 1
  /\ pc' = "ai_loop"
  /\ UNCHANGED << args, env, fsys, rules, analysisMode, llmClient, aiEnhancedRules,
                  parseResults, heap, sink, collected, fileIdx, ruleIdx, failures,
                  allIssues, beforeAI, llmCalls, reporter, printed, out, diag, exitCode >>
  /\ UNCHANGED << registryVars, argVars, sync >>

AISkip ==
  /\ pc = "enhance"
  /\ ~AIRequested
  /\ pc' = "output"
  /\ UNCHANGED << args, env, fsys, rules, analysisMode, llmClient, aiEnhancedRules,
                  parseResults, heap, sink, collected, fileIdx, ruleIdx, failures,
                  allIssues, beforeAI, contextMap, aiIdx, llmCalls, reporter, printed,
                  out, diag, exitCode >>
  /\ UNCHANGED << registryVars, argVars, sync >>

\* What the provider's API may do during one pass over n findings.
PassOutcomes(n) ==
  { [i \in 1..n |-> "ok"],
    [i \in 1..n |-> "error"],
    [i \in 1..n |-> IF i = 1 THEN "error" ELSE "ok"] }

\* allIssues = await aiRule.enhanceIssues(allIssues, contextMap)
AIPass ==
  /\ pc = "ai_loop"
  /\ aiIdx <= Len(aiEnhancedRules)
  /\ \E apis \in PassOutcomes(Len(allIssues)) :
       LET r == EnhanceIssues(aiEnhancedRules[aiIdx], llmClient, heap, allIssues,
                              contextMap, apis)
       IN  /\ heap' = r.heap
           /\ allIssues' = r.enhanced
           /\ llmCalls' = llmCalls \o r.calls
  /\ aiIdx' = aiIdx + 1
  /\ UNCHANGED << pc, args, env, fsys, rules, analysisMode, llmClient, aiEnhancedRules,
                  parseResults, sink, collected, fileIdx, ruleIdx, failures, beforeAI,
                  contextMap, reporter, printed, out, diag, exitCode >>
  /\ UNCHANGED << registryVars, argVars, sync >>

\* reporter.clear(); reporter.addIssues(allIssues)
\* An update that adds the enhanced list without clearing.
UpdateReporterNoClear(r, issues) == ReporterAddIssues(r, issues)

UpdateReporter(r, issues) == ReporterAddIssues(ReporterClear(r), issues)

AIUpdateReporter ==
  /\ pc = "ai_loop"
  /\ aiIdx > Len(aiEnhancedRules)
  /\ reporter' = UpdateReporter(reporter, allIssues)
  /\ pc' = "output"
  /\ UNCHANGED << args, env, fsys, rules, analysisMode, llmClient, aiEnhancedRules,
                  parseResults, heap, sink, collected, fileIdx, ruleIdx, failures,
                  allIssues, beforeAI, contextMap, aiIdx, llmCalls, printed, out,
                  diag, exitCode >>
  /\ UNCHANGED << registryVars, argVars, sync >>

(***************************************************************************)
(* The report and the exit code                                            *)
(***************************************************************************)
\* printReport: the reporter's array is sorted in place and listed.
PrintReport(h, r) == SortIssues(h, r)

\* JSON.stringify(issues) throws on a circular structure: an issue that
\* holds its context in _aiContext, whose issues hold the issue.
JsonSerializable(h, issues) ==
  \A i \in DOMAIN issues : h[issues[i]].aiContext = NoContext

SarifResult(issue) ==
  [ruleId |-> issue.ruleId, message |-> issue.message,
   level |-> IF issue.severity = "error" THEN "error" ELSE "warning",
   file |-> issue.file, line |-> issue.line, column |-> issue.column]

OutputConsole ==
  /\ pc = "output"
  /\ args.format \notin { "json", "sarif" }
  /\ reporter' = PrintReport(heap, reporter)
  /\ printed' = PrintReport(heap, reporter)
  /\ out' = [format |-> "console",
             issues |-> Deref(heap, PrintReport(heap, reporter)),
             summary |-> GetSummary(heap, reporter)]
  /\ pc' = "exit"
  /\ UNCHANGED << args, env, fsys, rules, analysisMode, llmClient, aiEnhancedRules,
                  parseResults, heap, sink, collected, fileIdx, ruleIdx, failures,
                  allIssues, beforeAI, contextMap, aiIdx, llmCalls, diag, exitCode >>
  /\ UNCHANGED << registryVars, argVars, sync >>

OutputJSON ==
  /\ pc = "output"
  /\ args.format = "json"
  /\ IF JsonSerializable(heap, allIssues)
     THEN /\ out' = [format |-> "json", issues |-> Deref(heap, allIssues),
                     summary |-> GetSummary(heap, reporter)]
          /\ pc' = "exit"
          /\ UNCHANGED << diag, exitCode >>
     ELSE /\ Fail
          /\ UNCHANGED out
  /\ UNCHANGED << args, env, fsys, rules, analysisMode, llmClient, aiEnhancedRules,
                  parseResults, heap, sink, collected, fileIdx, ruleIdx, failures,
                  allIssues, beforeAI, contextMap, aiIdx, llmCalls, reporter, printed >>
  /\ UNCHANGED << registryVars, argVars, sync >>

OutputSARIF ==
  /\ pc = "output"
  /\ args.format = "sarif"
  /\ out' = [format |-> "sarif",
             issues |-> [i \in DOMAIN allIssues |-> SarifResult(heap[allIssues[i]])]]
  /\ pc' = "exit"
  /\ UNCHANGED << args, env, fsys, rules, analysisMode, llmClient, aiEnhancedRules,
                  parseResults, heap, sink, collected, fileIdx, ruleIdx, failures,
                  allIssues, beforeAI, contextMap, aiIdx, llmCalls, reporter, printed,
                  diag, exitCode >>
  /\ UNCHANGED << registryVars, argVars, sync >>

\* if (reporter.hasErrors()) process.exit(1)
ExitStep ==
  /\ pc = "exit"
  /\ exitCode' = IF HasErrors(heap, reporter) THEN "1" ELSE "0"
  /\ pc' = "done"
  /\ UNCHANGED << args, env, fsys, rules, analysisMode, llmClient, aiEnhancedRules,
                  parseResults, heap, sink, collected, fileIdx, ruleIdx, failures,
                  allIssues, beforeAI, contextMap, aiIdx, llmCalls, reporter, printed,
                  out, diag >>
  /\ UNCHANGED << registryVars, argVars, sync >>

Next ==
  \/ SelectRules
  \/ InitAI
  \/ ParseSources
  \/ EngineApplyRule
  \/ EngineFinishFile
  \/ EngineReturn
  \/ AIStart
  \/ AISkip
  \/ AIPass
  \/ AIUpdateReporter
  \/ OutputConsole
  \/ OutputJSON
  \/ OutputSARIF
  \/ ExitStep

Spec == Init /\ [][Next]_vars

(***************************************************************************)
(* The playbook registry (playbooks/registry.ts). A registry value is the  *)
(* record of its three Maps. A Map is a sequence in insertion order, a Set *)
(* of ids a sequence without repetition.                                   *)
(***************************************************************************)
Range(s) == { s[i] : i \in DOMAIN s }

\* PlaybookParser.parseFromString / parseFromFile: the meta of a well-formed
\* playbook, or a failure.
YamlContents == { "yaml-alice-defi", "yaml-bob-defi-token", "yaml-malformed" }

ParseFromString(yamlContent) ==
  CASE yamlContent = "yaml-alice-defi" ->
         [ok |-> TRUE, meta |-> [name |-> "Alice DeFi", author |-> "alice", tags |-> << "defi" >>]]
    [] yamlContent = "yaml-bob-defi-token" ->
         [ok |-> TRUE, meta |-> [name |-> "Bob Token", author |-> "bob", tags |-> << "defi", "token" >>]]
    [] OTHER ->
         [ok |-> FALSE, meta |-> [name |-> "", author |-> "", tags |-> << >>]]

\* The files on disk and what they hold; generateIdFromPath of each.
PlaybookFiles == { "a.yaml", "old/a.yaml" }
FileContent(filePath) == IF filePath = "a.yaml" THEN "yaml-alice-defi" ELSE "yaml-malformed"
GenerateIdFromPath(filePath) == IF filePath \in PlaybookFiles THEN "a" ELSE "missing"

\* What Lighthouse serves: cids of at most eight characters, so that
\* cid.substring(0, 8) is the cid.
EncryptedCids == { "cid-encr" }
Cids == { "cid-good", "cid-encr", "cid-bad" }
DownloadPlaybook(cid) == IF cid = "cid-good" THEN "yaml-bob-defi-token" ELSE "binary"

Registry(pbs, tags, authors) == [playbooks |-> pbs, tagIndex |-> tags, authorIndex |-> authors]
EmptyRegistry == Registry(<< >>, EmptyTagIndex, EmptyAuthorIndex)

\* Map.get, Map.set (an existing key keeps its position), Map.delete.
MapHas(pbs, id) == \E i \in DOMAIN pbs : pbs[i].id = id
MapGet(pbs, id) == pbs[CHOOSE i \in DOMAIN pbs : pbs[i].id = id]
MapSet(pbs, playbook) ==
  IF MapHas(pbs, playbook.id)
  THEN [i \in DOMAIN pbs |-> IF pbs[i].id = playbook.id THEN playbook ELSE pbs[i]]
  ELSE Append(pbs, playbook)
MapDelete(pbs, id) == SelectSeq(pbs, LAMBDA e : e.id # id)

\* Set.add, Set.delete.
SetAdd(ids, id) == IF id \in Range(ids) THEN ids ELSE Append(ids, id)
SetDelete(ids, id) == SelectSeq(ids, LAMBDA x : x # id)

\* A RegisteredPlaybook as the register methods build it.
RegisteredPlaybook(id, type, location, cid, meta, parsed, validated, errors) ==
  [id |-> id,
   source |-> [type |-> type, location |-> location, cid |-> cid],
   meta |-> meta,
   parsedPlaybook |-> parsed,
   usageCount |-> 0,
   lastUsed |-> FALSE,
   validated |-> validated,
   validationErrors |-> errors]

\* addToRegistry: the entry is stored under its id and added to the indexes.
AddToRegistry(reg, playbook) ==
  [playbooks |-> MapSet(reg.playbooks, playbook),
   tagIndex |->
     [t \in Tags |->
        IF t \in Range(playbook.meta.tags)
        THEN SetAdd(reg.tagIndex[t], playbook.id)
        ELSE reg.tagIndex[t]],
   authorIndex |->
     [a \in Authors |->
        IF a = playbook.meta.author
        THEN SetAdd(reg.authorIndex[a], playbook.id)
        ELSE reg.authorIndex[a]]]

Done(reg) == [reg |-> reg, threw |-> FALSE]
Throws(reg) == [reg |-> reg, threw |-> TRUE]

\* registerFromString(yamlContent, id)
RegisterFromString(reg, yamlContent, id) ==
  LET parsedPlaybook == ParseFromString(yamlContent)
  IN  IF parsedPlaybook.ok
      THEN Done(AddToRegistry(reg,
             RegisteredPlaybook(id, "string", "inline", None, parsedPlaybook.meta, TRUE, TRUE, << >>)))
      ELSE Done(AddToRegistry(reg,
             RegisteredPlaybook(id, "string", "inline", None,
               [name |-> id, author |-> "unknown", tags |-> << >>], FALSE, FALSE,
               << "parse error" >>)))

\* registerFromFile(filePath)
RegisterFromFile(reg, filePath) ==
  IF filePath \notin PlaybookFiles THEN Throws(reg)
  ELSE LET parsedPlaybook == ParseFromString(FileContent(filePath))
           playbookId == GenerateIdFromPath(filePath)
       IN  IF parsedPlaybook.ok
           THEN Done(AddToRegistry(reg,
                  RegisteredPlaybook(playbookId, "file", filePath, None, parsedPlaybook.meta,
                                     TRUE, TRUE, << >>)))
           ELSE Done(AddToRegistry(reg,
                  RegisteredPlaybook(playbookId, "file", filePath, None,
                    [name |-> filePath, author |-> "unknown", tags |-> << >>], FALSE, FALSE,
                    << "parse error" >>)))

\* registerBuiltin(id, yamlContent)
RegisterBuiltin(reg, id, yamlContent) ==
  LET parsedPlaybook == ParseFromString(yamlContent)
  IN  IF parsedPlaybook.ok
      THEN Done(AddToRegistry(reg,
             RegisteredPlaybook(id, "builtin", "builtin:" \o id, None, parsedPlaybook.meta,
                                TRUE, TRUE, << >>)))
      ELSE Throws(reg)

\* A registerFromLighthouse that marks the encrypted entry as validated.
RegisterCidEncryptedValidated(reg, cid, id, initialized) ==
  LET playbookId == IF id # None THEN id ELSE "lighthouse-" \o cid
      parsedPlaybook == ParseFromString(DownloadPlaybook(cid))
  IN  IF ~initialized THEN [reg |-> reg, threw |-> TRUE]
      ELSE IF cid \in EncryptedCids
      THEN [reg |-> AddToRegistry(reg,
              RegisteredPlaybook(playbookId, "lighthouse", "gateway", cid,
                [name |-> "Encrypted Playbook", author |-> "Unknown", tags |-> << "encrypted" >>],
                FALSE, TRUE, << "Encrypted playbook - requires decryption key" >>)),
            threw |-> FALSE]
      ELSE IF cid \in DownloadableCids /\ parsedPlaybook.ok
      THEN [reg |-> AddToRegistry(reg,
              RegisteredPlaybook(playbookId, "lighthouse", "gateway", cid, parsedPlaybook.meta,
                                 TRUE, TRUE, << >>)),
            threw |-> FALSE]
      ELSE [reg |-> AddToRegistry(reg,
              RegisteredPlaybook(playbookId, "lighthouse", "ipfs", cid,
                [name |-> "Lighthouse Playbook", author |-> "unknown", tags |-> << >>],
                FALSE, FALSE, << "download or parse error" >>)),
            threw |-> FALSE]

\* registerFromLighthouse(cid, id) on a registry; without an id (None) the
\* id is lighthouse-<cid>.
RegisterCid(reg, cid, id, initialized) ==
  LET playbookId == IF id # None THEN id ELSE "lighthouse-" \o cid
      yamlContent == DownloadPlaybook(cid)
      parsedPlaybook == ParseFromString(yamlContent)
  IN  IF ~initialized THEN Throws(reg)
      ELSE IF cid \in EncryptedCids
      THEN Done(AddToRegistry(reg,
             RegisteredPlaybook(playbookId, "lighthouse", "gateway", cid,
               [name |-> "Encrypted Playbook", author |-> "Unknown", tags |-> << "encrypted" >>],
               FALSE, FALSE, << "Encrypted playbook - requires decryption key" >>)))
      ELSE IF cid \in DownloadableCids /\ parsedPlaybook.ok
      THEN Done(AddToRegistry(reg,
             RegisteredPlaybook(playbookId, "lighthouse", "gateway", cid, parsedPlaybook.meta,
                                TRUE, TRUE, << >>)))
      ELSE Done(AddToRegistry(reg,
             RegisteredPlaybook(playbookId, "lighthouse", "ipfs", cid,
               [name |-> "Lighthouse Playbook", author |-> "unknown", tags |-> << >>],
               FALSE, FALSE, << "download or parse error" >>)))

\* getSamplePlaybooks(): the builtin playbooks handed to initializeRegistry.
SamplePlaybooks == << [id |-> "b", content |-> "yaml-bob-defi-token"] >>

\* initializeRegistry(builtins): registerBuiltin of each, failures ignored.
RECURSIVE InitializeRegistry(_, _, _)
InitializeRegistry(reg, builtins, i) ==
  IF i > Len(builtins) THEN reg
  ELSE InitializeRegistry(RegisterBuiltin(reg, builtins[i].id, builtins[i].content).reg,
                          builtins, i + 1)

\* get(id): the entry, or the empty list for undefined.
Get(reg, id) == IF MapHas(reg.playbooks, id) THEN << MapGet(reg.playbooks, id) >> ELSE << >>

\* getAndUse(id)
GetAndUse(reg, id) ==
  IF MapHas(reg.playbooks, id)
  THEN LET playbook == MapGet(reg.playbooks, id)
       IN  [reg EXCEPT !.playbooks =
              MapSet(reg.playbooks,
                     [playbook EXCEPT !.usageCount = playbook.usageCount + 1,
                                      !.lastUsed = TRUE])]
  ELSE reg

\* unregister(id)
Unregister(reg, id) ==
  IF ~MapHas(reg.playbooks, id) THEN reg
  ELSE LET playbook == MapGet(reg.playbooks, id)
       IN  [playbooks |-> MapDelete(reg.playbooks, id),
            tagIndex |->
              [t \in Tags |->
                 IF t \in Range(playbook.meta.tags)
                 THEN SetDelete(reg.tagIndex[t], id)
                 ELSE reg.tagIndex[t]],
            authorIndex |->
              [a \in Authors |->
                 IF a = playbook.meta.author
                 THEN SetDelete(reg.authorIndex[a], id)
                 ELSE reg.authorIndex[a]]]

\* getAll()
GetAll(reg) == reg.playbooks

\* The entries of the ids of an index key that are still registered.
RECURSIVE Lookup(_, _)
Lookup(reg, ids) ==
  IF ids = << >> THEN << >>
  ELSE Get(reg, Head(ids)) \o Lookup(reg, Tail(ids))

GetByTag(reg, tag) == Lookup(reg, reg.tagIndex[tag])
GetByAuthor(reg, author) == Lookup(reg, reg.authorIndex[author])

\* getAllTags() / getAllAuthors(): the keys of the index, sorted.
GetAllTags(reg) == { t \in Tags : reg.tagIndex[t] # << >> }
GetAllAuthors(reg) == { a \in Authors : reg.authorIndex[a] # << >> }

\* validate(id)
Validate(reg, id) ==
  IF ~MapHas(reg.playbooks, id)
  THEN [valid |-> FALSE, errors |-> << "Playbook not found" >>]
  ELSE LET playbook == MapGet(reg.playbooks, id)
       IN  IF ~playbook.validated
           THEN [valid |-> FALSE,
                 errors |-> IF playbook.validationErrors = << >>
                            THEN << "Unknown validation error" >>
                            ELSE playbook.validationErrors]
           ELSE [valid |-> TRUE, errors |-> << >>]

\* clear()
Clear(reg) == EmptyRegistry

\* export(): the entries of the Map.
Export(reg) == reg.playbooks

\* import(data): clear, then addToRegistry of a copy of each entry.
RECURSIVE ImportFrom(_, _, _)
ImportFrom(reg, data, i) ==
  IF i > Len(data) THEN reg
  ELSE ImportFrom(AddToRegistry(reg, data[i]), data, i + 1)

Import(reg, data) == ImportFrom(Clear(reg), data, 1)

(***************************************************************************)
(* The registry on its own: any sequence of its operations on the          *)
(* singleton.                                                              *)
(***************************************************************************)
MaxUses == 2

StringIds == { "a" }
UsedIds == { "a", "nowhere" }
RegistryIds == { "a", "b", "c", "nowhere" }

\* Registry states saved earlier by export, as import may be given.
StoredExports ==
  { Export(EmptyRegistry),
    Export(GetAndUse(RegisterFromString(EmptyRegistry, "yaml-alice-defi", "a").reg, "a")),
    Export(RegisterCid(InitializeRegistry(EmptyRegistry, SamplePlaybooks, 1),
                       "cid-encr", "c", TRUE).reg) }

CurrentRegistry == Registry(playbooks, tagIndex, authorIndex)

SetRegistry(reg) ==
  /\ playbooks' = reg.playbooks
  /\ tagIndex' = reg.tagIndex
  /\ authorIndex' = reg.authorIndex

RegistryFrame ==
  UNCHANGED << pc, args, env, fsys, rules, analysisMode, llmClient, aiEnhancedRules,
               parseResults, heap, sink, collected, fileIdx, ruleIdx, failures,
               allIssues, beforeAI, contextMap, aiIdx, llmCalls, reporter, printed,
               out, diag, exitCode, argVars, sync >>

InitRegistry ==
  /\ pc = "registry"
  /\ args = NoArgs
  /\ env \in { e \in EnvChoices : e.provider = "openai" }
  /\ fsys = CHOOSE f \in FsysChoices : TRUE
  /\ rules = << >>
  /\ analysisMode = None
  /\ llmClient = NoClient
  /\ aiEnhancedRules = << >>
  /\ parseResults = << >>
  /\ heap = << >>
  /\ sink = << >>
  /\ collected = << >>
  /\ fileIdx = 1
  /\ ruleIdx = 1
  /\ failures = << >>
  /\ allIssues = << >>
  /\ beforeAI = << >>
  /\ contextMap = { }
  /\ aiIdx = 1
  /\ llmCalls = << >>
  /\ reporter = << >>
  /\ printed = << >>
  /\ out = NoReport
  /\ diag = << >>
  /\ exitCode = NoExit
  /\ playbooks = << >>
  /\ tagIndex = EmptyTagIndex
  /\ authorIndex = EmptyAuthorIndex
  /\ argv = << >>
  /\ configDefaults = NoConfig
  /\ sync = NoSync

\* registry.registerFromString(yamlContent, id)
RegRegisterFromString ==
  /\ pc = "registry"
  /\ \E yamlContent \in YamlContents, id \in StringIds :
       LET r == RegisterFromString(CurrentRegistry, yamlContent, id)
       IN  SetRegistry(r.reg)
  /\ RegistryFrame

\* registry.registerFromFile(filePath)
RegRegisterFromFile ==
  /\ pc = "registry"
  /\ \E filePath \in PlaybookFiles \cup { "missing.yaml" } :
       LET r == RegisterFromFile(CurrentRegistry, filePath)
       IN  SetRegistry(r.reg)
  /\ RegistryFrame

\* registry.registerBuiltin(id, yamlContent)
RegRegisterBuiltin ==
  /\ pc = "registry"
  /\ \E yamlContent \in { "yaml-bob-defi-token", "yaml-malformed" } :
       LET r == RegisterBuiltin(CurrentRegistry, "b", yamlContent)
       IN  SetRegistry(r.reg)
  /\ RegistryFrame

\* initializeRegistry(getSamplePlaybooks()), as each analyzeTask does first.
RegInitializeRegistry ==
  /\ pc = "registry"
  /\ SetRegistry(InitializeRegistry(CurrentRegistry, SamplePlaybooks, 1))
  /\ RegistryFrame

\* registry.registerFromLighthouse(cid, "c")
RegRegisterFromLighthouse ==
  /\ pc = "registry"
  /\ \E cid \in Cids :
       LET r == RegisterCid(CurrentRegistry, cid, "c", env.lighthouse)
       IN  SetRegistry(r.reg)
  /\ RegistryFrame

\* registry.getAndUse(id)
RegGetAndUse ==
  /\ pc = "registry"
  /\ \E id \in UsedIds :
       /\ MapHas(playbooks, id) => MapGet(playbooks, id).usageCount < MaxUses
       /\ SetRegistry(GetAndUse(CurrentRegistry, id))
  /\ RegistryFrame

\* registry.unregister(id)
RegUnregister ==
  /\ pc = "registry"
  /\ \E id \in RegistryIds :
       /\ SetRegistry(Unregister(CurrentRegistry, id))
  /\ RegistryFrame

\* registry.clear()
RegClear ==
  /\ pc = "registry"
  /\ SetRegistry(Clear(CurrentRegistry))
  /\ RegistryFrame

\* registry.import(registry.export())
RegExportImport ==
  /\ pc = "registry"
  /\ SetRegistry(Import(CurrentRegistry, Export(CurrentRegistry)))
  /\ RegistryFrame

\* registry.import(data) of data stored earlier
RegImport ==
  /\ pc = "registry"
  /\ \E data \in StoredExports :
       /\ SetRegistry(Import(CurrentRegistry, data))
  /\ RegistryFrame

NextRegistry ==
  \/ RegRegisterFromString
  \/ RegRegisterFromFile
  \/ RegRegisterBuiltin
  \/ RegInitializeRegistry
  \/ RegRegisterFromLighthouse
  \/ RegGetAndUse
  \/ RegUnregister
  \/ RegClear
  \/ RegExportImport
  \/ RegImport

SpecRegistry == InitRegistry /\ [][NextRegistry]_vars

(***************************************************************************)
(* syncFromLighthouse: the uploads listed for the API key are registered   *)
(* one after the other, those whose cid is already registered are skipped. *)
(***************************************************************************)
\* generateIdFromName(upload.name): the base name, in lower case.
GenerateIdFromName(filename) == IF filename = "c.yaml" THEN "c" ELSE "a"

Upload(cid, name) == [cid |-> cid, name |-> name]

\* What lighthouse.listUploads() may answer.
UploadLists ==
  { << >>,
    << Upload("cid-good", "A.yml") >>,
    << Upload("cid-encr", "c.yaml"), Upload("cid-encr", "A.yml") >>,
    << Upload("cid-encr", "A.yml"), Upload("cid-good", "A.yml") >>,
    << Upload("cid-good", "c.yaml"), Upload("cid-bad", "c.yaml"), Upload("cid-good", "A.yml") >> }

\* A loop body that looks for the upload's id instead of its cid.
SyncUploadById(reg, registered, upload, initialized) ==
  IF MapHas(reg.playbooks, GenerateIdFromName(upload.name))
  THEN [reg |-> reg, registered |-> registered]
  ELSE LET id == GenerateIdFromName(upload.name)
           r == RegisterCid(reg, upload.cid, id, initialized)
       IN  IF r.threw
           THEN [reg |-> r.reg, registered |-> registered]
           ELSE [reg |-> r.reg,
                 registered |-> Append(registered, MapGet(r.reg.playbooks, id))]

\* The body of the loop for one upload: the registry and the result list.
SyncUpload(reg, registered, upload, initialized) ==
  LET existing == { i \in DOMAIN reg.playbooks : reg.playbooks[i].source.cid = upload.cid }
  IN  IF existing # { }
      THEN [reg |-> reg, registered |-> registered]
      ELSE LET id == GenerateIdFromName(upload.name)
               r == RegisterCid(reg, upload.cid, id, initialized)
           IN  IF r.threw
               THEN [reg |-> r.reg, registered |-> registered]
               ELSE [reg |-> r.reg,
                     registered |-> Append(registered, MapGet(r.reg.playbooks, id))]

SyncFrame ==
  UNCHANGED << args, env, fsys, rules, analysisMode, llmClient, aiEnhancedRules,
               parseResults, heap, sink, collected, fileIdx, ruleIdx, failures,
               allIssues, beforeAI, contextMap, aiIdx, llmCalls, reporter, printed,
               out, diag, exitCode, argVars >>

\* The call: without Lighthouse it returns the empty list at once, else it
\* lists the uploads.
SyncStart ==
  /\ pc = "registry"
  /\ IF ~env.lighthouse
     THEN sync' = [uploads |-> << >>, idx |-> 1, registered |-> << >>]
     ELSE \E uploads \in UploadLists :
            sync' = [uploads |-> uploads, idx |-> 1, registered |-> << >>]
  /\ pc' = "sync"
  /\ UNCHANGED registryVars
  /\ SyncFrame

\* for (const upload of uploads) { ... }
SyncNextUpload ==
  /\ pc = "sync"
  /\ sync.idx <= Len(sync.uploads)
  /\ LET r == SyncUpload(CurrentRegistry, sync.registered, sync.uploads[sync.idx],
                         env.lighthouse)
     IN  /\ SetRegistry(r.reg)
         /\ sync' = [sync EXCEPT !.idx = sync.idx + 1, !.registered = r.registered]
  /\ UNCHANGED pc
  /\ SyncFrame

\* return registered
SyncReturn ==
  /\ pc = "sync"
  /\ sync.idx > Len(sync.uploads)
  /\ pc' = "registry"
  /\ sync' = NoSync
  /\ UNCHANGED registryVars
  /\ SyncFrame

NextSync ==
  \/ SyncStart
  \/ SyncNextUpload
  \/ SyncReturn
  \/ RegRegisterFromLighthouse
  \/ RegRegisterFromFile
  \/ RegUnregister
  \/ RegClear

SpecSync == InitRegistry /\ [][NextSync]_vars

(***************************************************************************)
(* The arguments of a run: process.argv merged with hre.config.superaudit, *)
(* then the rule selection.                                                *)
(***************************************************************************)
\* getArgValue(argv, flag): the token behind the first occurrence of flag.
GetArgValue(av, flag) ==
  IF \E i \in DOMAIN av : av[i] = flag
  THEN LET index == CHOOSE i \in DOMAIN av :
                      av[i] = flag /\ \A j \in 1..(i - 1) : av[j] # flag
       IN  IF index + 1 <= Len(av) THEN av[index + 1] ELSE None
  ELSE None

\* hasFlag(argv, flag)
HasFlag(av, flag) == \E i \in DOMAIN av : av[i] = flag

\* a || b on optional strings: undefined and "" are falsy.
OrElse(a, b) == IF a # None /\ a # "" THEN a ELSE b

\* configDefaults.rules.join(",")
RECURSIVE JoinRules(_)
JoinRules(ids) ==
  IF ids = << >> THEN ""
  ELSE IF Len(ids) = 1 THEN ids[1]
  ELSE ids[1] \o "," \o JoinRules(Tail(ids))

\* args.rules.split(",").map(id => id.trim()) of the rule strings that occur.
SplitRules(str) ==
  CASE str = "explicit-visibility" -> << "explicit-visibility" >>
    [] str = "bogus" -> << "bogus" >>
    [] str = "reentrancy-paths, no-tx-origin" -> << "reentrancy-paths", "no-tx-origin" >>
    [] str = "bogus,explicit-visibility" -> << "bogus", "explicit-visibility" >>
    [] str = "no-tx-origin,reentrancy-paths" -> << "no-tx-origin", "reentrancy-paths" >>
    [] OTHER -> << str >>

\* The args object of analyzeTask; rules is kept split, as
\* determineAnalysisRules reads it.
ParseArguments(av, config, e) ==
  LET rulesArg == OrElse(GetArgValue(av, "--rules"),
                         IF config.rules # << >> THEN JoinRules(config.rules) ELSE None)
  IN  [playbook |-> OrElse(GetArgValue(av, "--playbook"), config.playbook),
       playbookCid |-> GetArgValue(av, "--playbook-cid"),
       playbookId |-> GetArgValue(av, "--playbook-id"),
       mode |-> OrElse(GetArgValue(av, "--mode"), config.mode),
       rules |-> IF rulesArg # None /\ rulesArg # "" THEN SplitRules(rulesArg) ELSE << >>,
       format |-> OrElse(GetArgValue(av, "--format"), config.format),
       output |-> OrElse(GetArgValue(av, "--output"), config.output),
       aiEnabled |-> HasFlag(av, "--ai") \/ config.aiEnabled \/ e.aiEnabled]

Opt(flag, value) == IF value = None THEN << >> ELSE << flag, value >>

ArgvChoices ==
  { Opt("--playbook-cid", c) \o Opt("--playbook-id", i) \o Opt("--playbook", p)
      \o Opt("--rules", r) \o Opt("--mode", m) \o Opt("--format", f) :
      c \in { None, "cid-good", "cid-bad" },
      i \in { None, "erc20-token-security", "unknown-id" },
      p \in { None, "erc20.yaml", "missing.yaml" },
      r \in { None, "bogus", "reentrancy-paths, no-tx-origin", "bogus,explicit-visibility" },
      m \in { None, "basic", "advanced", "bogus" },
      f \in { None, "json" } }
  \cup { << "--ai", "--output", "report.txt", "--mode" >> }

ConfigChoices ==
  { [playbook |-> p, mode |-> m, rules |-> r, format |-> f, output |-> o, aiEnabled |-> FALSE] :
      p \in { None, "erc20.yaml" }, m \in { None, "full" },
      r \in { << >>, << "no-tx-origin", "reentrancy-paths" >> },
      f \in { None, "sarif" }, o \in { None, "audit-report.txt" } }

ArgsFrame ==
  UNCHANGED << env, fsys, llmClient, aiEnhancedRules, parseResults, heap, sink, collected,
               fileIdx, ruleIdx, failures, allIssues, beforeAI, contextMap, aiIdx, llmCalls,
               reporter, printed, out, diag, exitCode, registryVars, argVars,
               sync >>

InitArgs ==
  /\ pc = "argv"
  /\ argv \in ArgvChoices
  /\ configDefaults \in ConfigChoices
  /\ args = NoArgs
  /\ env = CHOOSE e \in EnvChoices : e.lighthouse
  /\ fsys = CHOOSE f \in FsysChoices : TRUE
  /\ rules = << >>
  /\ analysisMode = None
  /\ llmClient = NoClient
  /\ aiEnhancedRules = << >>
  /\ parseResults = << >>
  /\ heap = << >>
  /\ sink = << >>
  /\ collected = << >>
  /\ fileIdx = 1
  /\ ruleIdx = 1
  /\ failures = << >>
  /\ allIssues = << >>
  /\ beforeAI = << >>
  /\ contextMap = { }
  /\ aiIdx = 1
  /\ llmCalls = << >>
  /\ reporter = << >>
  /\ printed = << >>
  /\ out = NoReport
  /\ diag = << >>
  /\ exitCode = NoExit
  /\ playbooks = << >>
  /\ tagIndex = EmptyTagIndex
  /\ authorIndex = EmptyAuthorIndex
  /\ sync = NoSync

\* const args = { playbook: getArgValue(argv, "--playbook") || ..., ... }
ParseArgs ==
  /\ pc = "argv"
  /\ args' = ParseArguments(argv, configDefaults, env)
  /\ pc' = "args"
  /\ UNCHANGED << rules, analysisMode >>
  /\ ArgsFrame

\* determineAnalysisRules(args): the selection, or its exception.
DetermineRules ==
  /\ pc = "args"
  /\ LET r == DetermineAnalysisRules(args, env)
     IN  /\ rules' = r.rules
         /\ analysisMode' = r.analysisMode
         /\ pc' = IF r.threw THEN "failed" ELSE "determined"
  /\ UNCHANGED args
  /\ ArgsFrame

NextArgs == ParseArgs \/ DetermineRules

SpecArgs == InitArgs /\ [][NextArgs]_vars

(***************************************************************************)
(* The Reporter on its own: any sequence of addIssue, addIssues and clear, *)
(* then printReport.                                                       *)
(***************************************************************************)
MaxIssues == 3
MaxLine == 2
Columns == { 1, 2 }

\* The issues handed to the reporter.
IssueChoices ==
  { [ruleId |-> id, file |-> f, line |-> l, column |-> c, severity |-> Severity(id),
     message |-> << "desc:" \o id >>, aiEnhancement |-> NoEnhancement,
     needsAIEnhancement |-> FALSE, aiContext |-> NoContext] :
      id \in { "no-tx-origin" }, f \in Files, l \in 1..MaxLine, c \in Columns }

InitReporter ==
  /\ pc = "reporter"
  /\ args = NoArgs
  /\ env = CHOOSE e \in EnvChoices : TRUE
  /\ fsys = CHOOSE f \in FsysChoices : TRUE
  /\ rules = << >>
  /\ analysisMode = None
  /\ llmClient = NoClient
  /\ aiEnhancedRules = << >>
  /\ parseResults = << >>
  /\ heap = << >>
  /\ sink = << >>
  /\ collected = << >>
  /\ fileIdx = 1
  /\ ruleIdx = 1
  /\ failures = << >>
  /\ allIssues = << >>
  /\ beforeAI = << >>
  /\ contextMap = { }
  /\ aiIdx = 1
  /\ llmCalls = << >>
  /\ reporter = << >>
  /\ printed = << >>
  /\ out = NoReport
  /\ diag = << >>
  /\ exitCode = NoExit
  /\ playbooks = << >>
  /\ tagIndex = EmptyTagIndex
  /\ authorIndex = EmptyAuthorIndex
  /\ argv = << >>
  /\ configDefaults = NoConfig
  /\ sync = NoSync

ReporterFrame ==
  UNCHANGED << args, env, fsys, rules, analysisMode, llmClient, aiEnhancedRules,
               parseResults, sink, collected, fileIdx, ruleIdx, failures, allIssues,
               beforeAI, contextMap, aiIdx, llmCalls, out, diag, exitCode,
               registryVars, argVars, sync >>

\* reporter.addIssue(issue)
RAddIssue ==
  /\ pc \in { "reporter", "printed" }
  /\ Len(heap) < MaxIssues
  /\ \E issue \in IssueChoices :
       /\ heap' = Append(heap, issue)
       /\ reporter' = ReporterAddIssue(reporter, Len(heap) + 1)
  /\ pc' = "reporter"
  /\ UNCHANGED printed
  /\ ReporterFrame

\* reporter.addIssues([a, b])
RAddIssues ==
  /\ pc \in { "reporter", "printed" }
  /\ Len(heap) + 2 <= MaxIssues
  /\ \E a \in IssueChoices, b \in IssueChoices :
       /\ heap' = heap \o << a, b >>
       /\ reporter' = ReporterAddIssues(reporter, << Len(heap) + 1, Len(heap) + 2 >>)
  /\ pc' = "reporter"
  /\ UNCHANGED printed
  /\ ReporterFrame

\* reporter.clear()
RClear ==
  /\ pc \in { "reporter", "printed" }
  /\ reporter # << >>
  /\ reporter' = ReporterClear(reporter)
  /\ pc' = "reporter"
  /\ UNCHANGED << heap, printed >>
  /\ ReporterFrame

\* reporter.printReport(): this.issues is sorted in place and listed.
RPrintReport ==
  /\ pc = "reporter"
  /\ reporter' = PrintReport(heap, reporter)
  /\ printed' = PrintReport(heap, reporter)
  /\ pc' = "printed"
  /\ UNCHANGED heap
  /\ ReporterFrame

NextReporter == RAddIssue \/ RAddIssues \/ RClear \/ RPrintReport

SpecReporter == InitReporter /\ [][NextReporter]_vars

(***************************************************************************)
(* A whole run as a function of its inputs, for comparing runs             *)
(***************************************************************************)
RECURSIVE AnalyzeFile(_, _, _, _, _, _)
AnalyzeFile(rs, file, h, s, fault, i) ==
  IF i > Len(rs)
  THEN [heap |-> h, sink |-> s]
  ELSE LET r == EngineApply(rs[i], file, h, s, fault)
       IN  AnalyzeFile(rs, file, r.heap, r.sink, fault, i + 1)

RECURSIVE AnalyzeFiles(_, _, _, _, _, _)
AnalyzeFiles(rs, files, h, found, fault, k) ==
  IF k > Len(files)
  THEN [heap |-> h, issues |-> EngineResult(h, found)]
  ELSE LET r == AnalyzeFile(rs, files[k], h, << >>, fault, 1)
       IN  AnalyzeFiles(rs, files, r.heap, found \o r.sink, fault, k + 1)

AnalyzeMultiple(rs, files, fault) == AnalyzeFiles(rs, files, << >>, << >>, fault, 1)

RECURSIVE EnhanceAll(_, _, _, _, _, _)
EnhanceAll(aiRules, client, h, issues, contexts, k) ==
  IF k > Len(aiRules)
  THEN [heap |-> h, issues |-> issues]
  ELSE LET r == EnhanceIssues(aiRules[k], client, h, issues, contexts,
                              [i \in DOMAIN issues |-> "ok"])
       IN  EnhanceAll(aiRules, client, r.heap, r.enhanced, contexts, k + 1)

\* The final findings of a run with the active rules rs whose LLM requests
\* all succeed.
FinalFindings(rs, files, fault, client, ai) ==
  LET e == AnalyzeMultiple(rs, files, fault)
      a == IF ai /\ Len(rs) > 0
           THEN EnhanceAll(rs, client, e.heap, e.issues,
                           BuildContextMap(e.heap, e.issues, files), 1)
           ELSE e
  IN  Deref(a.heap, a.issues)

\* What a Finding reports: everything but the enhancement markers.
Reported(f) ==
  [ruleId |-> f.ruleId, file |-> f.file, line |-> f.line, column |-> f.column,
   severity |-> f.severity, message |-> f.message, aiEnhancement |-> f.aiEnhancement]

FindingsOf(ruleId, findings) ==
  LET own == SelectSeq(findings, LAMBDA f : f.ruleId = ruleId)
  IN  [i \in DOMAIN own |-> Reported(own[i])]

RemoveAt(s, k) == SubSeq(s, 1, k - 1) \o SubSeq(s, k + 1, Len(s))

AllRequestsSucceeded == \A i \in DOMAIN llmCalls : llmCalls[i].api = "ok"

(***************************************************************************)
(* C1: rule independence. At the end of a run whose LLM requests all       *)
(* succeeded, the final findings of an active rule A are those of the run  *)
(* on the same input with any other active rule B removed.                 *)
(***************************************************************************)
C1_RuleIndependence ==
  (pc \in { "output", "exit", "done" } /\ Len(parseResults) > 0 /\ AllRequestsSucceeded)
    => \A a \in DOMAIN rules : \A b \in DOMAIN rules \ { a } :
         FindingsOf(rules[a].baseId, Deref(heap, allIssues)) =
           FindingsOf(rules[a].baseId,
                      FinalFindings(RemoveAt(rules, b), parseResults, fsys.fault,
                                    llmClient, AIRequested))

\* Without AI enhancement the findings of a rule do not depend on the others.
C1_IndependentWithoutAI ==
  (pc \in { "output", "exit", "done" } /\ Len(parseResults) > 0 /\ ~AIRequested)
    => \A a \in DOMAIN rules : \A b \in DOMAIN rules \ { a } :
         FindingsOf(rules[a].baseId, Deref(heap, allIssues)) =
           FindingsOf(rules[a].baseId,
                      FinalFindings(RemoveAt(rules, b), parseResults, fsys.fault,
                                    llmClient, FALSE))

(***************************************************************************)
(* C2: applying a rule only appends to the sink. In an apply step every    *)
(* Finding the rule's execution has put in the sink -- those already there *)
(* and those the base rule pushes -- keeps exactly the fields it was       *)
(* created with; an enhancement pass changes no existing Finding object.   *)
(***************************************************************************)
ApplyStep == pc = "analyze" /\ ruleIdx' = ruleIdx + 1
EnhanceStep == pc = "ai_loop" /\ aiIdx' = aiIdx + 1

IsPrefix(s, t) == Len(s) <= Len(t) /\ SubSeq(t, 1, Len(s)) = s

C2_ApplyOnlyAppends ==
  [][ /\ ApplyStep =>
          LET created == BaseRuleApply(rules[ruleIdx], parseResults[fileIdx],
                                       heap, sink, fsys.fault)
          IN  /\ IsPrefix(sink, sink')
              /\ \A o \in 1..Len(created.heap) : heap'[o] = created.heap[o]
      /\ EnhanceStep => IsPrefix(heap, heap')
    ]_vars

(***************************************************************************)
(* C3: fault isolation. When an active rule throws on a file, the engine   *)
(* returns, for every other rule, the findings of a run without the        *)
(* throwing rule, and the run is not aborted by the exception.             *)
(***************************************************************************)
FaultyIndex == { k \in DOMAIN rules : rules[k].baseId = fsys.fault.rule }

C3_FaultIsolation ==
  (pc = "enhance" /\ FaultyIndex # { })
    => /\ \A k \in FaultyIndex : \A a \in DOMAIN rules \ { k } :
            FindingsOf(rules[a].baseId, Deref(heap, allIssues)) =
              FindingsOf(rules[a].baseId,
                         Deref(AnalyzeMultiple(RemoveAt(rules, k), parseResults, NoFault).heap,
                               AnalyzeMultiple(RemoveAt(rules, k), parseResults, NoFault).issues))
       /\ Len(failures) = Len(parseResults)
       /\ diag = << >>
       /\ exitCode = NoExit

C3_Witness ==
  /\ pc = "enhance"
  /\ Len(failures) = 2
  /\ \E i \in DOMAIN allIssues : heap[allIssues[i]].ruleId # fsys.fault.rule
  /\ \E k \in DOMAIN rules : rules[k].wrapped /\ rules[k].baseId = fsys.fault.rule

(***************************************************************************)
(* C4: a ParseError ends the run with the parse diagnostic and exit code 1 *)
(* and nothing else: no rule applied, no LLM request, no report.           *)
(***************************************************************************)
C4_ParseErrorAborts ==
  fsys.parse.kind = "ParseError"
    => /\ heap = << >> /\ allIssues = << >> /\ reporter = << >>
       /\ llmCalls = << >> /\ failures = << >> /\ out = NoReport
       /\ pc \in { "start", "selected", "parse", "done" }
       /\ (pc = "done" /\ rules # << >>)
            => diag = << "Parse error" >> /\ exitCode = "1"

C4_Witness ==
  /\ pc = "done" /\ fsys.parse.kind = "ParseError" /\ diag = << "Parse error" >>
  /\ Len(rules) > 0 /\ llmClient # NoClient

ReportOutput == out # NoReport /\ diag = << >> /\ exitCode \in { "0", "1" }
ParseAbort ==
  /\ out = NoReport /\ exitCode = "1"
  /\ diag \in { << "Parse error" >>, << "Failed to parse source files" >> }
FailedAbort == out = NoReport /\ exitCode = "1" /\ diag = << "Analysis failed" >>
NoFilesReturn == out = NoReport /\ exitCode = "0" /\ diag = << >> /\ heap = << >>

NoSourceFiles == fsys.parse.kind = "ok" /\ fsys.parse.files = << >>

\* The playbook and rule-selection problems, read off the arguments.
PlaybookFileMissing(a) ==
  /\ a.playbookCid = None /\ a.playbookId = None
  /\ a.playbook # None /\ a.playbook \notin ExistingPlaybookFiles
UnknownRegistryId(a) ==
  a.playbookCid = None /\ a.playbookId # None /\ a.playbookId \notin RegisteredPlaybookIds
DownloadFails(a, e) ==
  a.playbookCid # None /\ (~e.lighthouse \/ a.playbookCid \notin DownloadableCids)
NoRuleMatches(a) ==
  /\ ~PlaybookSelected(a) /\ a.rules # << >>
  /\ \A i \in DOMAIN a.rules : \A j \in DOMAIN DEFAULT_RULES : a.rules[i] # DEFAULT_RULES[j]
SelectionProblem(a, e) ==
  PlaybookFileMissing(a) \/ UnknownRegistryId(a) \/ DownloadFails(a, e) \/ NoRuleMatches(a)

SameIdentity(f, g) ==
  /\ f.ruleId = g.ruleId /\ f.file = g.file /\ f.line = g.line
  /\ f.column = g.column /\ f.severity = g.severity

C8_EnhanceKeepsIdentity ==
  /\ Len(allIssues) = Len(beforeAI)
  /\ \A i \in DOMAIN allIssues : SameIdentity(heap[allIssues[i]], heap[beforeAI[i]])

C8_Witness ==
  /\ pc = "output" /\ aiIdx > 2
  /\ \E i \in DOMAIN allIssues : ~heap[allIssues[i]].needsAIEnhancement
  /\ \E i \in DOMAIN llmCalls : llmCalls[i].api = "ok"
  /\ \E i \in DOMAIN llmCalls : llmCalls[i].api = "error"

(***************************************************************************)
(* C9: only findings of the security-critical rules (no-tx-origin,         *)
(* reentrancy-paths) are marked for enhancement or sent to the LLM.        *)
(***************************************************************************)
SecurityCritical == { "no-tx-origin", "reentrancy-paths" }

C9_OnlySecurityCritical ==
  /\ \A o \in DOMAIN heap :
       heap[o].needsAIEnhancement => heap[o].ruleId \in SecurityCritical
  /\ \A i \in DOMAIN llmCalls : llmCalls[i].request.ruleId \in SecurityCritical

(***************************************************************************)
(* C10: after the enhancement step the reporter holds the enhanced list,   *)
(* each Finding once and in order, as many as before the enhancement; the  *)
(* console report lists exactly them.                                      *)
(***************************************************************************)
SameElements(s, t) ==
  /\ Len(s) = Len(t)
  /\ \A o \in 1..Len(heap) :
       Cardinality({ i \in DOMAIN s : s[i] = o }) = Cardinality({ i \in DOMAIN t : t[i] = o })

C10_ReporterHoldsEnhanced ==
  (AIRequested /\ pc \in { "output", "exit", "done" })
    => /\ pc = "output" => reporter = allIssues
       /\ SameElements(reporter, allIssues)
       /\ GetSummary(heap, reporter).totalIssues = Len(beforeAI)
       /\ HasErrors(heap, reporter) <=> \E i \in DOMAIN allIssues : heap[allIssues[i]].severity = "error"
       /\ out.format = "console"
            => /\ SameElements(printed, allIssues)
               /\ out.summary.totalIssues = Len(beforeAI)

C10_Witness ==
  /\ pc = "exit" /\ AIRequested /\ out.format = "console"
  /\ \E i \in DOMAIN allIssues : heap[allIssues[i]].aiEnhancement.present
  /\ Len(allIssues) > 2

(***************************************************************************)
(* C6: printReport lists the findings of the reporter by file, then line,  *)
(* then column; findings with equal file, line and column keep the order   *)
(* in which they were added.                                               *)
(***************************************************************************)
Before(a, b) ==
  \/ FileRank(a.file) < FileRank(b.file)
  \/ a.file = b.file /\ a.line < b.line
  \/ a.file = b.file /\ a.line = b.line /\ a.column < b.column

SameKey(a, b) == a.file = b.file /\ a.line = b.line /\ a.column = b.column

\* Issues are numbered as they are added: the smaller number was added first.
Canonical(h, s) ==
  \A i \in DOMAIN s : \A j \in DOMAIN s :
    i < j => /\ ~Before(h[s[j]], h[s[i]])
             /\ SameKey(h[s[i]], h[s[j]]) => s[i] < s[j]

C6_CanonicalOrder ==
  [][pc' = "printed"
       => /\ SameElements(printed', reporter)
          /\ printed' = reporter'
          /\ Canonical(heap', printed')]_vars

C6_Witness ==
  /\ pc = "printed" /\ Len(printed) = 3
  /\ \E i \in DOMAIN printed : \E j \in DOMAIN printed :
       i < j /\ SameKey(heap[printed[i]], heap[printed[j]])
  /\ \E i \in DOMAIN printed : \E j \in DOMAIN printed :
       i < j /\ printed[i] > printed[j] /\ heap[printed[i]].column < heap[printed[j]].column

(***************************************************************************)
(* C11: the tag and author indexes mirror the stored playbooks: getByTag   *)
(* and getByAuthor return exactly the registered playbooks carrying the    *)
(* tag or author, each once, and getAllTags and getAllAuthors exactly the  *)
(* tags and authors carried by a registered playbook.                      *)
(***************************************************************************)
HasTag(e, t) == t \in Range(e.meta.tags)

Exactly(found, S) == Range(found) = S /\ Len(found) = Cardinality(S)

C11_IndexesMirror ==
  LET reg == CurrentRegistry
      stored == Range(playbooks)
  IN  /\ \A t \in Tags : Exactly(GetByTag(reg, t), { e \in stored : HasTag(e, t) })
      /\ \A a \in Authors : Exactly(GetByAuthor(reg, a), { e \in stored : e.meta.author = a })
      /\ GetAllTags(reg) = { t \in Tags : \E e \in stored : HasTag(e, t) }
      /\ GetAllAuthors(reg) = { e.meta.author : e \in stored }

(***************************************************************************)
(* C12: import(export()) restores the registry: get, getAll, getByTag,     *)
(* getByAuthor, getAllTags and getAllAuthors answer as before the export;  *)
(* and an import leaves exactly the imported entries registered.           *)
(***************************************************************************)
Answers(reg) ==
  [get |-> [id \in RegistryIds |-> Get(reg, id)],
   getAll |-> GetAll(reg),
   getByTag |-> [t \in Tags |-> Range(GetByTag(reg, t))],
   getByAuthor |-> [a \in Authors |-> Range(GetByAuthor(reg, a))],
   getAllTags |-> GetAllTags(reg),
   getAllAuthors |-> GetAllAuthors(reg)]

C12_ExportImportRestores ==
  [][/\ CurrentRegistry' = Import(CurrentRegistry, Export(CurrentRegistry))
        => Answers(CurrentRegistry') = Answers(CurrentRegistry)
     /\ \A data \in StoredExports :
          CurrentRegistry' = Import(CurrentRegistry, data) => playbooks' = data]_vars

(***************************************************************************)
(* C13: the usageCount of a registered playbook changes only by getAndUse  *)
(* of its id, which adds exactly 1 and sets lastUsed; getAndUse of an      *)
(* unknown id changes nothing. (An import of stored data replaces the      *)
(* entries and is left aside.)                                             *)
(***************************************************************************)
IsImport == \E data \in StoredExports : CurrentRegistry' = Import(CurrentRegistry, data)

C13_UsageOnlyByGetAndUse ==
  [][/\ GetAndUse(CurrentRegistry, "nowhere") = CurrentRegistry
     /\ ~IsImport =>
          \A id \in RegistryIds :
            (MapHas(playbooks, id) /\ MapHas(playbooks', id))
              => \/ MapGet(playbooks', id).usageCount = MapGet(playbooks, id).usageCount
                 \/ /\ CurrentRegistry' = GetAndUse(CurrentRegistry, id)
                    /\ MapGet(playbooks', id).usageCount = MapGet(playbooks, id).usageCount + 1
                    /\ MapGet(playbooks', id).lastUsed]_vars

(***************************************************************************)
(* C14: an entry is validated exactly when it holds its parsed playbook,   *)
(* and not validated exactly when it holds validation errors; validate(id) *)
(* answers valid with no error exactly for the validated registered ids,   *)
(* and invalid with at least one error for every other id.                 *)
(***************************************************************************)
C14_ValidatedEntries ==
  /\ \A i \in DOMAIN playbooks :
       /\ playbooks[i].validated <=> playbooks[i].parsedPlaybook
       /\ ~playbooks[i].validated <=> playbooks[i].validationErrors # << >>
  /\ \A id \in RegistryIds :
       LET v == Validate(CurrentRegistry, id)
       IN  /\ v.valid <=> (MapHas(playbooks, id) /\ MapGet(playbooks, id).validated)
           /\ v.valid => v.errors = << >>
           /\ ~v.valid => v.errors # << >>

C14_Witness ==
  /\ pc = "registry"
  /\ \E i \in DOMAIN playbooks : playbooks[i].validated /\ playbooks[i].source.type = "file"
  /\ \E i \in DOMAIN playbooks :
       ~playbooks[i].validated /\ playbooks[i].source.type = "lighthouse"
       /\ playbooks[i].source.cid = "cid-encr"
  /\ \E i \in DOMAIN playbooks : playbooks[i].source.type = "builtin"
  /\ ~Validate(CurrentRegistry, "nowhere").valid

(***************************************************************************)
(* C15: the command line overrides the config: a flag given with a value   *)
(* sets the argument, and when the command line names --playbook, --rules  *)
(* or --mode the rules and the analysis mode are those the command line    *)
(* alone selects.                                                          *)
(***************************************************************************)
Given(flag) == GetArgValue(argv, flag) # None /\ GetArgValue(argv, flag) # ""

CommandLineOnly == ParseArguments(argv, NoConfig, env)

C15_CommandLineOverridesConfig ==
  pc \in { "args", "determined", "failed" }
    => /\ Given("--playbook") => args.playbook = GetArgValue(argv, "--playbook")
       /\ Given("--mode") => args.mode = GetArgValue(argv, "--mode")
       /\ Given("--rules") => args.rules = SplitRules(GetArgValue(argv, "--rules"))
       /\ Given("--format") => args.format = GetArgValue(argv, "--format")
       /\ Given("--output") => args.output = GetArgValue(argv, "--output")
       /\ (pc # "args" /\ (Given("--playbook") \/ Given("--rules") \/ Given("--mode")))
            => LET r == DetermineAnalysisRules(CommandLineOnly, env)
               IN  /\ rules = r.rules
                   /\ analysisMode = r.analysisMode
                   /\ (pc = "failed") = r.threw

(***************************************************************************)
(* C18: determineAnalysisRules takes its rules from one source, the first  *)
(* present of --playbook-cid, --playbook-id, playbook file, --rules, mode. *)
(* With --rules the rules are the built-in rules requested, in BASIC then  *)
(* ADVANCED order, and the call fails when none is; with no option or an   *)
(* unknown mode the rules are DEFAULT_RULES and the mode is full.          *)
(***************************************************************************)
RuleIdsOf(rs) == [i \in DOMAIN rs |-> rs[i].id]

SourceOfRules(a) ==
  IF a.playbookCid # None THEN "cid"
  ELSE IF a.playbookId # None THEN "id"
  ELSE IF a.playbook # None THEN "file"
  ELSE IF a.rules # << >> THEN "rules"
  ELSE "mode"

Requested(a) == SelectSeq(BASIC_RULES \o ADVANCED_RULES, LAMBDA id : id \in Range(a.rules))

C18_OneSourceByPrecedence ==
  pc \in { "determined", "failed" }
    => LET src == SourceOfRules(args)
           threw == pc = "failed"
           ids == RuleIdsOf(rules)
           withPlaybook == BASIC_RULES \o CompilePlaybook(PlaybookEntries)
       IN  /\ threw => rules = << >>
           /\ src = "cid"
                => /\ threw <=> (~env.lighthouse \/ args.playbookCid \notin DownloadableCids)
                   /\ ~threw => ids = withPlaybook /\ analysisMode = "community-playbook"
           /\ src = "id"
                => /\ threw <=> args.playbookId \notin RegisteredPlaybookIds
                   /\ ~threw => ids = withPlaybook /\ analysisMode = "registry"
           /\ src = "file"
                => /\ threw <=> args.playbook \notin ExistingPlaybookFiles
                   /\ ~threw => ids = withPlaybook /\ analysisMode = "playbook"
           /\ src = "rules"
                => /\ threw <=> Requested(args) = << >>
                   /\ ~threw => ids = Requested(args) /\ analysisMode = "custom"
           /\ src = "mode"
                => /\ ~threw
                   /\ args.mode = "basic" => ids = BASIC_RULES /\ analysisMode = "basic"
                   /\ args.mode = "advanced"
                        => ids = BASIC_RULES \o ADVANCED_RULES /\ analysisMode = "advanced"
                   /\ args.mode \notin { "basic", "advanced" }
                        => ids = DEFAULT_RULES /\ analysisMode = "full"

C18_Witness ==
  /\ pc = "determined" /\ analysisMode = "registry"
  /\ args.playbook = "missing.yaml" /\ args.rules = << "bogus" >> /\ args.mode = "basic"

(***************************************************************************)
(* C16: each Finding is enhanced at most once: one LLM request is made for *)
(* it, with the description of the rule that produced it, and its message  *)
(* holds at most one AI analysis section.                                  *)
(***************************************************************************)
SameFinding(q, r) ==
  /\ q.ruleId = r.ruleId /\ q.fileName = r.fileName
  /\ q.line = r.line /\ q.column = r.column

WrapperDescription(id) == AIEnhancedRule(Rule(id), TRUE).description

AISectionTexts ==
  { FormatEnhancedMessage(<< >>, FallbackResponse)[1] }
    \cup { FormatEnhancedMessage(<< >>,
              ModelResponse([ruleDescription |-> WrapperDescription(id)]))[1] :
              id \in RuleIds }

AISections(message) == Cardinality({ k \in DOMAIN message : message[k] \in AISectionTexts })

C16_EnhancedAtMostOnce ==
  /\ \A i, j \in DOMAIN llmCalls :
        SameFinding(llmCalls[i].request, llmCalls[j].request) => i = j
  /\ \A i \in DOMAIN llmCalls :
        llmCalls[i].request.ruleDescription = WrapperDescription(llmCalls[i].request.ruleId)
  /\ \A o \in DOMAIN heap : AISections(heap[o].message) <= 1

(***************************************************************************)
(* C17: when the AI analysis of a Finding fails (the API call fails or its *)
(* answer does not parse), enhancement returns the original Finding,       *)
(* unchanged.                                                              *)
(***************************************************************************)
C17_FailureReturnsOriginal ==
  [][ \A k \in (Len(llmCalls) + 1)..Len(llmCalls') :
        llmCalls'[k].api = "error"
          => /\ llmCalls'[k].issue \in Range(allIssues')
             /\ llmCalls'[k].issue \in DOMAIN heap
                  => heap'[llmCalls'[k].issue] = heap[llmCalls'[k].issue] ]_vars

(***************************************************************************)
(* C19: a finished run has exit code 1 exactly when its final finding list *)
(* holds a finding of severity error or the run failed with a fatal        *)
(* diagnostic (exception or parse error); otherwise, findings all warning  *)
(* or info, no finding, or no source file, it returns normally, whatever   *)
(* the output format.                                                      *)
(***************************************************************************)
FinalListHasError == \E i \in DOMAIN allIssues : heap[allIssues[i]].severity = "error"
RunFailed == diag # << >>

KeyAvailable(e) ==
  \/ e.provider = "openai" /\ e.openaiKey
  \/ e.provider = "anthropic" /\ e.anthropicKey

\* The run of analyzeTask with no AI enhancement, as a function of its inputs.
PlainRun(a, e, f) ==
  LET sel == DetermineAnalysisRules(a, e)
      p == ParseStep(f.parse)
      r == AnalyzeMultiple(sel.rules, p.files, f.fault)
      findings == Deref(r.heap, r.issues)
  IN  IF sel.threw
      THEN [out |-> NoReport, exitCode |-> "1", diag |-> << "Analysis failed" >>,
            findings |-> << >>, ruleIds |-> << >>]
      ELSE IF p.pc = "done"
      THEN [out |-> NoReport, exitCode |-> p.exitCode, diag |-> p.diag,
            findings |-> << >>, ruleIds |-> RuleIdsOf(sel.rules)]
      ELSE [out |-> IF a.format = "sarif"
                    THEN [format |-> "sarif",
                          issues |-> [i \in DOMAIN findings |-> SarifResult(findings[i])]]
                    ELSE [format |-> IF a.format = "json" THEN "json" ELSE "console",
                          issues |-> findings,
                          summary |-> GetSummary(r.heap, r.issues)],
            exitCode |-> IF HasErrors(r.heap, r.issues) THEN "1" ELSE "0",
            diag |-> << >>,
            findings |-> findings, ruleIds |-> RuleIdsOf(sel.rules)]

C20_NoKeyIsNoAI ==
  (args.aiEnabled /\ ~KeyAvailable(env))
    => /\ llmClient = NoClient /\ aiEnhancedRules = << >> /\ llmCalls = << >>
       /\ \A i \in DOMAIN rules : ~rules[i].wrapped /\ rules[i].id = rules[i].baseId
       /\ \A o \in DOMAIN heap :
            ~heap[o].needsAIEnhancement /\ ~heap[o].aiEnhancement.present
       /\ pc = "done"
            => LET plain == PlainRun([args EXCEPT !.aiEnabled = FALSE], env, fsys)
               IN  /\ RuleIdsOf(rules) = plain.ruleIds
                   /\ Deref(heap, allIssues) = plain.findings
                   /\ out = plain.out
                   /\ diag = plain.diag
                   /\ exitCode = plain.exitCode

C20_Witness ==
  /\ pc = "done" /\ args.aiEnabled /\ env.provider = "local"
  /\ Len(allIssues) > 0 /\ out # NoReport

(***************************************************************************)
(* C21: syncFromLighthouse never registers an upload whose cid already     *)
(* belongs to a registered playbook, whatever that playbook's id or        *)
(* validation state: the upload is skipped. An upload whose cid is not     *)
(* registered is registered and added to the list the call returns, which  *)
(* holds nothing else. Without Lighthouse the call returns the empty list  *)
(* and leaves the registry as it was.                                      *)
(***************************************************************************)
CidRegistered(pbs, cid) == \E i \in DOMAIN pbs : pbs[i].source.cid = cid

C21_SyncSkipsRegisteredCids ==
  [][ /\ (pc = "sync" /\ pc' = "sync")
          => LET upload == sync.uploads[sync.idx]
             IN  /\ CidRegistered(playbooks, upload.cid)
                      => /\ UNCHANGED registryVars
                         /\ sync'.registered = sync.registered
                 /\ ~CidRegistered(playbooks, upload.cid)
                      => /\ Len(sync'.registered) = Len(sync.registered) + 1
                         /\ SubSeq(sync'.registered, 1, Len(sync.registered)) = sync.registered
                         /\ LET new == sync'.registered[Len(sync'.registered)]
                            IN  /\ new.source.cid = upload.cid
                                /\ new \in Range(playbooks')
                                /\ new \notin Range(playbooks)
      /\ (pc = "registry" /\ pc' = "sync" /\ ~env.lighthouse)
          => sync'.uploads = << >> /\ sync'.registered = << >>
      /\ (pc = "sync" /\ ~env.lighthouse) => UNCHANGED registryVars /\ sync.registered = << >>
      /\ (pc = "sync" /\ pc' = "registry") => UNCHANGED registryVars ]_vars

C21_Witness ==
  /\ pc = "sync" /\ sync.idx > Len(sync.uploads)
  /\ sync.registered # << >> /\ Len(sync.registered) < Len(sync.uploads)
  /\ \E k \in DOMAIN sync.uploads : \E i \in DOMAIN playbooks :
       /\ playbooks[i].source.cid = sync.uploads[k].cid
       /\ playbooks[i].id # GenerateIdFromName(sync.uploads[k].name)
       /\ ~playbooks[i].validated
       /\ playbooks[i] \notin Range(sync.registered)

====
